---------------------------- MODULE Spec2Model ----------------------------
(***************************************************************************)
(* A model of the aws-runas credential-client composition engine:          *)
(*   - client.Factory (client/client_factory.go): the choice and the       *)
(*     composition of the AwsClient variant for a resolved configuration,  *)
(*     and the cache file each stage is given;                             *)
(*   - external.baseClient (the SAML request and its response handling)    *)
(*     and client.samlRoleClient.CredentialsWithContext, which drives it;  *)
(*   - external.baseClient.gatherCredentials and identity, the interactive *)
(*     gathering of user name, password and MFA code;                      *)
(*   - external.baseClient.oauthAuthorize and oauthToken, the OAuth2       *)
(*     authorize and token requests.                                       *)
(*                                                                         *)
(* Strings that the code takes apart (profile names, role ARNs, cache file *)
(* names) are sequences of tokens: the separators ":", "/", "_", "-" are   *)
(* tokens of their own, every other token is a run of other characters.    *)
(* Profile names hold no path separator, so filepath.Join only prepends    *)
(* the cache directory.                                                    *)
(***************************************************************************)
EXTENDS Integers, Sequences, FiniteSets, TLC

VARIABLES
    \* ---- Factory.Get ----
    cfgIn,      \* the configuration as handed to Get
    cfg,        \* the caller's configuration after Get (Get writes through the pointer)
    client,     \* the AwsClient Get returned (NoClient before the call and on error)
    getErr,     \* the error Get returned
    fpc,        \* "ready": Get not yet called on cfgIn, "done": Get returned
    options,    \* Factory.options, fixed by NewClientFactory
    \* ---- baseClient / samlRoleClient ----
    now,        \* time.Now()
    saml,       \* baseClient.saml, the held assertion
    lastCall,   \* what the last samlRequest did and returned
    provSaml,   \* the assertion held by the role provider
    cache,      \* the role provider's credential cache
    pc,         \* position inside CredentialsWithContext
    callLog,    \* the steps of the current/last CredentialsWithContext call
    callRes,    \* result of the last CredentialsWithContext call
    \* ---- baseClient: credential gathering and identity ----
    auth,         \* the client's AuthenticationClientConfig fields
    lastGather,   \* what the last gatherCredentials did and returned
    lastIdentity, \* what the last identity call did and returned
    \* ---- baseClient: OAuth2 authorize ----
    oauthCfg,      \* the client's RedirectUri and its HTTP client's CheckRedirect
    lastAuthorize, \* what the last oauthAuthorize did and returned
    lastToken      \* what the last oauthToken did and returned

factoryVars == <<cfgIn, cfg, client, getErr, fpc, options>>
samlVars == <<now, saml, lastCall, provSaml, cache, pc, callLog, callRes>>
credVars == <<auth, lastGather, lastIdentity>>
oauthVars == <<oauthCfg, lastAuthorize, lastToken>>
vars == <<cfgIn, cfg, client, getErr, fpc, options,
          now, saml, lastCall, provSaml, cache, pc, callLog, callRes,
          auth, lastGather, lastIdentity, oauthCfg, lastAuthorize, lastToken>>

-----------------------------------------------------------------------------
(* Strings *)

Empty == << >>

Max(S) == CHOOSE x \in S : \A y \in S : y <= x

\* strings.Count(s, t) for a separator token t
Count(s, t) == Cardinality({i \in 1..Len(s) : s[i] = t})

\* the position of the n-th occurrence of token t in s
NthIndex(s, t, n) ==
    CHOOSE i \in 1..Len(s) : s[i] = t /\ Cardinality({j \in 1..i : s[j] = t}) = n

\* arn.IsARN: strings.HasPrefix(arn, "arn:") && strings.Count(arn, ":") >= 5
IsARN(s) ==
    /\ Len(s) >= 2
    /\ s[1] = "arn"
    /\ s[2] = ":"
    /\ Count(s, ":") >= 5

\* arn.Parse: strings.SplitN(arn, ":", 6); AccountID is section 5, Resource the rest
ArnAccountID(s) == SubSeq(s, NthIndex(s, ":", 4) + 1, NthIndex(s, ":", 5) - 1)

ArnResource(s) == SubSeq(s, NthIndex(s, ":", 5) + 1, Len(s))

\* roleParts[len(roleParts)-1] of strings.Split(r, "/")
LastPart(r) ==
    LET P == {i \in 1..Len(r) : r[i] = "/"}
    IN  IF P = {} THEN r ELSE SubSeq(r, Max(P) + 1, Len(r))

-----------------------------------------------------------------------------
(* Configurations handed to Factory.Get *)

\* credentials.AssumeRoleDurationDefault, in seconds (1 hour)
AssumeRoleDurationDefault == 3600

\* "arn:<partition>:iam::<account>:<resource>"
MkArn(partition, account, resource) ==
    <<"arn", ":", partition, ":", "iam", ":", ":", account, ":">> \o resource

\* the role ARNs of the model, by their parts: account id, resource path, role name
ArnParts ==
    { [account |-> "111", path |-> <<"role", "/">>, name |-> "Admin"],
      [account |-> "111", path |-> <<"role", "/", "team", "/">>, name |-> "Admin"],
      [account |-> "222", path |-> <<"role", "/">>, name |-> "Dev"] }

ArnOf(r) == MkArn("aws", r.account, r.path \o <<r.name>>)

RoleArns == {ArnOf(r) : r \in ArnParts}

JumpParts == [account |-> "999", path |-> <<"role", "/">>, name |-> "Jump"]

JumpArn == ArnOf(JumpParts)

ProfileNames == {Empty, <<"dev">>} \cup {ArnOf(r) : r \in {p \in ArnParts : p.name = "Dev"}}
                \cup {ArnOf(r) : r \in {p \in ArnParts : Len(p.path) > 2}}

Durations ==
    {0, AssumeRoleDurationDefault - 1, AssumeRoleDurationDefault,
     AssumeRoleDurationDefault + 1, 12 * AssumeRoleDurationDefault}

Configs ==
    [ isNil                : {FALSE},
      ProfileName          : ProfileNames,
      RoleArn              : {Empty} \cup RoleArns,
      SamlUrl              : {Empty, <<"https", ":", "//idp.example/saml">>},
      WebIdentityUrl       : {Empty, <<"https", ":", "//idp.example/oidc">>},
      JumpRoleArn          : {Empty, JumpArn},
      MfaSerial            : {Empty, <<"mfa-serial">>},
      SrcProfile           : {Empty, <<"src">>},
      Duration             : Durations,     \* cfg.RoleCredentialDuration()
      SessionTokenDuration : {2 * AssumeRoleDurationDefault} ]

\* a nil *config.AwsConfig
NilConfig ==
    [ isNil |-> TRUE, ProfileName |-> Empty, RoleArn |-> Empty, SamlUrl |-> Empty,
      WebIdentityUrl |-> Empty, JumpRoleArn |-> Empty, MfaSerial |-> Empty,
      SrcProfile |-> Empty, Duration |-> 0, SessionTokenDuration |-> 0 ]

-----------------------------------------------------------------------------
(* client_factory.go *)

CachePath == "cachePath"

NoCache == << >>

NoClient == [kind |-> "none"]

\* cacheKey taking the first part of the resource, roleParts[0]
cacheKeyFirstPart(profile, role) ==
    LET r == ArnResource(role)
        P == {i \in 1..Len(r) : r[i] = "/"}
        first == IF P = {} THEN r
                 ELSE SubSeq(r, 1, (CHOOSE i \in P : \A j \in P : i <= j) - 1)
    IN  IF Len(profile) < 1 /\ IsARN(role)
        THEN ArnAccountID(role) \o <<"-">> \o first
        ELSE profile

\* the cache key of cacheFileName: the profile, or "<account>-<last resource part>"
cacheKey(profile, role) ==
    IF Len(profile) < 1 /\ IsARN(role)
    THEN ArnAccountID(role) \o <<"-">> \o LastPart(ArnResource(role))
    ELSE profile

\* cacheFileName leaving the prefix out of the file name
cacheFileNameNoPrefix(prefix, profile, role) ==
    <<CachePath, "/", "_">> \o cacheKey(profile, role)

cacheFileName(prefix, profile, role) ==
    <<CachePath, "/", prefix, "_">> \o cacheKey(profile, role)

\* cache.NewFileCredentialCache(cacheFileName(...)) when f.options.EnableCache
CacheIf(o, prefix, profile, role) ==
    IF o.EnableCache THEN cacheFileName(prefix, profile, role) ELSE NoCache

\* NewSessionTokenClient(session(opts), sesCfg) as configured by Factory.sessionClient
sessionClient(c, o, profile) ==
    [ kind         |-> "session_token",
      roleArn      |-> Empty,
      duration     |-> c.SessionTokenDuration,
      serialNumber |-> c.MfaSerial,
      cache        |-> CacheIf(o, ".aws_session_token", profile, Empty),
      sesProfile   |-> profile,
      ident        |-> "own",
      creds        |-> "session",
      jar          |-> "none",
      fetch        |-> "none",
      fetchJar     |-> "none",
      base         |-> NoClient ]

\* roleClient comparing the duration with < in place of <=
roleClientBelowDefault(c, o, profile) ==
    LET sesProfile == IF Len(c.SrcProfile) > 0 THEN c.SrcProfile ELSE profile
        roleCfg ==
            [ kind         |-> "assume_role",
              roleArn      |-> c.RoleArn,
              duration     |-> c.Duration,
              serialNumber |-> c.MfaSerial,
              cache        |-> CacheIf(o, ".aws_assume_role", profile, c.RoleArn),
              sesProfile   |-> sesProfile,
              ident        |-> "own",
              creds        |-> "session",
              jar          |-> "none",
              fetch        |-> "none",
              fetchJar     |-> "none",
              base         |-> NoClient ]
    IN  IF c.Duration < AssumeRoleDurationDefault
        THEN [roleCfg EXCEPT !.serialNumber = Empty,
                             !.base = sessionClient(c, o, sesProfile),
                             !.creds = "base.creds",
                             !.ident = "base.ident"]
        ELSE roleCfg

\* Factory.roleClient
roleClient(c, o, profile) ==
    LET sesProfile == IF Len(c.SrcProfile) > 0 THEN c.SrcProfile ELSE profile
        roleCfg ==
            [ kind         |-> "assume_role",
              roleArn      |-> c.RoleArn,
              duration     |-> c.Duration,
              serialNumber |-> c.MfaSerial,
              cache        |-> CacheIf(o, ".aws_assume_role", profile, c.RoleArn),
              sesProfile   |-> sesProfile,
              ident        |-> "own",
              creds        |-> "session",
              jar          |-> "none",
              fetch        |-> "none",
              fetchJar     |-> "none",
              base         |-> NoClient ]
    IN  IF c.Duration <= AssumeRoleDurationDefault
        THEN [roleCfg EXCEPT !.serialNumber = Empty,
                             !.base = sessionClient(c, o, sesProfile),
                             !.creds = "base.creds",
                             !.ident = "base.ident"]
        ELSE roleCfg

\* chainClient passing the requested duration on to the second stage
chainClientRequestedDuration(c, o, baseCl, identPart) ==
    [ kind         |-> "assume_role",
      roleArn      |-> c.RoleArn,
      duration     |-> c.Duration,
      serialNumber |-> Empty,
      cache        |-> CacheIf(o, ".aws_assume_role", c.ProfileName, c.RoleArn),
      sesProfile   |-> Empty,
      ident        |-> identPart,
      creds        |-> "base.roleProvider",
      jar          |-> "none",
      fetch        |-> "none",
      fetchJar     |-> "none",
      base         |-> baseCl ]

\* the Assume-Role client of a role chain (samlClient and webClient, jump role set)
chainClient(c, o, baseCl, identPart) ==
    [ kind         |-> "assume_role",
      roleArn      |-> c.RoleArn,
      duration     |-> AssumeRoleDurationDefault,
      serialNumber |-> Empty,
      cache        |-> CacheIf(o, ".aws_assume_role", c.ProfileName, c.RoleArn),
      sesProfile   |-> Empty,
      ident        |-> identPart,
      creds        |-> "base.roleProvider",
      jar          |-> "none",
      fetch        |-> "none",
      fetchJar     |-> "none",
      base         |-> baseCl ]

\* the singleton cookie jar of the process
cookieJar == "cookieJar"

\* NewSamlRoleClient / NewWebRoleClient as configured by the Factory: the client as
\* constructed, its HTTP client holding the jar that setHttpClient gave it
newFederatedClient(kind, role, duration, cacheFile) ==
    [ kind         |-> kind,
      roleArn      |-> role,
      duration     |-> duration,
      serialNumber |-> Empty,
      cache        |-> cacheFile,
      sesProfile   |-> Empty,
      ident        |-> "own",
      creds        |-> "session",
      jar          |-> "own",
      fetch        |-> "none",
      fetchJar     |-> "none",
      base         |-> NoClient ]

\* SetCookieJar leaving the HTTP client's jar as it is
SetCookieJarIgnored(cl, jar) == cl

\* baseClient.SetCookieJar: c.httpClient.Jar = jar
SetCookieJar(cl, jar) == [cl EXCEPT !.jar = jar]

\* the initial SamlAssertion() or FetchToken() of the Factory, the client's first
\* request to the IdP: its outcome, and the jar the request was made with
InitialFetch(cl, outcome) ==
    IF outcome = "none" THEN cl
    ELSE [cl EXCEPT !.fetch = outcome, !.fetchJar = cl.jar]

\* the SAML-role or Web-role client as the Factory builds it: constructed, given
\* the cookie jar, then (fetch # "none") asked for the initial assertion or token
federatedClient(kind, role, duration, cacheFile, fetch) ==
    InitialFetch(SetCookieJar(newFederatedClient(kind, role, duration, cacheFile), cookieJar),
                 fetch)

\* Factory.samlClient; idp is the outcome of the initial samlClient.SamlAssertion()
samlClient(c, o, profile, idp) ==
    IF Len(c.JumpRoleArn) > 0
    THEN LET baseCl == federatedClient("saml_role", c.JumpRoleArn, c.Duration,
                           CacheIf(o, ".aws_saml_role", Empty, c.JumpRoleArn), idp)
         IN  IF idp = "failed"
             THEN [client |-> NoClient, err |-> "idp"]
             ELSE [client |-> chainClient(c, o, baseCl, "base.samlClient"), err |-> "nil"]
    ELSE [client |-> federatedClient("saml_role", c.RoleArn, c.Duration,
                         CacheIf(o, ".aws_saml_role", profile, c.RoleArn), idp),
          err |-> "nil"]

\* Factory.webClient; idp is the outcome of the initial baseCl.FetchToken()
webClient(c, o, profile, idp) ==
    IF Len(c.JumpRoleArn) > 0
    THEN LET baseCl == federatedClient("web_role", c.JumpRoleArn, c.Duration,
                           CacheIf(o, ".aws_web_role", Empty, c.JumpRoleArn), idp)
         IN  IF idp = "failed"
             THEN [client |-> NoClient, err |-> "idp"]
             ELSE [client |-> chainClient(c, o, baseCl, "base.webClient"), err |-> "nil"]
    ELSE [client |-> federatedClient("web_role", c.RoleArn, c.Duration,
                         CacheIf(o, ".aws_web_role", profile, c.RoleArn), "none"),
          err |-> "nil"]

\* ResolveProfile copying the ARN into the role ARN and keeping the profile name
ResolveProfileKeepName(c) ==
    IF IsARN(c.ProfileName)
    THEN [c EXCEPT !.RoleArn = c.ProfileName]
    ELSE c

\* lines 54-57 of Get: a profile name that is a role ARN becomes the role ARN
ResolveProfile(c) ==
    IF IsARN(c.ProfileName)
    THEN [c EXCEPT !.RoleArn = c.ProfileName, !.ProfileName = Empty]
    ELSE c

\* Dispatch testing the Web-Identity URL before the SAML URL
DispatchWebFirst(c, o, idp) ==
    IF Len(c.WebIdentityUrl) > 0 THEN webClient(c, o, c.ProfileName, idp)
    ELSE IF Len(c.SamlUrl) > 0 THEN samlClient(c, o, c.ProfileName, idp)
    ELSE IF Len(c.RoleArn) > 0
         THEN [client |-> roleClient(c, o, c.ProfileName), err |-> "nil"]
    ELSE [client |-> sessionClient(c, o, c.ProfileName), err |-> "nil"]

\* lines 75-101 of Get: the choice of the client, on the resolved configuration
Dispatch(c, o, idp) ==
    IF Len(c.SamlUrl) > 0 THEN samlClient(c, o, c.ProfileName, idp)
    ELSE IF Len(c.WebIdentityUrl) > 0 THEN webClient(c, o, c.ProfileName, idp)
    ELSE IF Len(c.RoleArn) > 0
         THEN [client |-> roleClient(c, o, c.ProfileName), err |-> "nil"]
    ELSE [client |-> sessionClient(c, o, c.ProfileName), err |-> "nil"]

\* Factory.Get: valid is the outcome of cfg.Validate()
GetResult(c, o, valid, idp) ==
    IF c.isNil THEN [client |-> NoClient, err |-> "invalid configuration", cfg |-> c]
    ELSE IF ~valid THEN [client |-> NoClient, err |-> "validate", cfg |-> c]
    ELSE LET r  == ResolveProfile(c)
             d  == Dispatch(r, o, idp)
         IN  [client |-> d.client, err |-> d.err, cfg |-> r]

FactoryInit ==
    /\ cfgIn \in Configs \cup {NilConfig}
    /\ cfg = cfgIn
    /\ client = NoClient
    /\ getErr = "nil"
    /\ fpc = "ready"
    /\ options \in [EnableCache : BOOLEAN]

Get ==
    /\ fpc = "ready"
    /\ \E valid \in BOOLEAN, idp \in {"ok", "failed"} :
          LET r == GetResult(cfgIn, options, valid, idp)
          IN  /\ cfg' = r.cfg
              /\ client' = r.client
              /\ getErr' = r.err
    /\ fpc' = "done"
    /\ UNCHANGED <<cfgIn, options>>
    /\ UNCHANGED samlVars
    /\ UNCHANGED <<credVars, oauthVars>>

-----------------------------------------------------------------------------
(* Assertions, IdP responses and credentials *)

\* the last instant of the model's clock
MaxTime == 3

\* the most <input> elements an IdP response document holds
MaxInputs == 2

\* *credentials.SamlAssertion: a nil pointer, the empty string, a base64 SAML
\* document whose expiry is exp, or a non-empty string with no derivable expiry
Nil == [kind |-> "nil", exp |-> 0]

EmptyValue == [kind |-> "empty", exp |-> 0]

Garbage == [kind |-> "garbage", exp |-> 0]

Xml(e) == [kind |-> "xml", exp |-> e]

\* the values an IdP may put in a SAMLResponse input at time t: an assertion that
\* expires later, or a value no expiry can be derived from
IssuedValues(t) == {Xml(e) : e \in (t + 1)..(MaxTime + 1)} \cup {Garbage}

\* c.saml != nil && len(*c.saml) > 0
Held(a) == a.kind \notin {"nil", "empty"}

\* SamlAssertion.ExpiresAt(): the second result, err != nil
ExpiresAtFails(a) == a.kind # "xml"

\* SamlAssertion.ExpiresAt(): the derived expiry
ExpiresAt(a) == a.exp

\* the <input> elements of a response document; s.Attr("value") of an element
\* without a value attribute is "", the same as an empty value
Inputs(t) ==
    {[name |-> "RelayState", value |-> EmptyValue]}
      \cup {[name |-> "SAMLResponse", value |-> v] : v \in IssuedValues(t) \cup {EmptyValue}}

Docs(t) == UNION {[1..n -> Inputs(t)] : n \in 0..MaxInputs}

\* what c.httpClient.Do, checkResponseError and goquery make of one round trip
HttpOutcomes(t) ==
    {[kind |-> "transportErr", doc |-> << >>], [kind |-> "parseErr", doc |-> << >>]}
      \cup {[kind |-> "doc", doc |-> d] : d \in Docs(t)}

NoCreds == [kind |-> "none", exp |-> 0]

Creds(e) == [kind |-> "creds", exp |-> e]

-----------------------------------------------------------------------------
(* external.baseClient: samlRequest and handleSamlResponse *)

\* EachInput stopping at the first input named SAMLResponse
RECURSIVE EachInputFirst(_, _)
EachInputFirst(held, doc) ==
    IF doc = << >> THEN held
    ELSE IF Head(doc).name = "SAMLResponse" THEN Head(doc).value
    ELSE EachInputFirst(held, Tail(doc))

\* doc.Find("input").Each(...): every input named SAMLResponse assigns c.saml
RECURSIVE EachInput(_, _)
EachInput(held, doc) ==
    IF doc = << >> THEN held
    ELSE EachInput(IF Head(doc).name = "SAMLResponse" THEN Head(doc).value ELSE held,
                   Tail(doc))

\* handleSamlResponse letting go of the held assertion when the document does
\* not parse
handleSamlResponseDroppingHeld(held, http) ==
    IF http.kind = "parseErr"
    THEN [saml |-> Nil, err |-> "parse error"]
    ELSE [saml |-> EachInput(held, http.doc), err |-> "nil"]

\* baseClient.handleSamlResponse
handleSamlResponse(held, http) ==
    IF http.kind = "parseErr"
    THEN [saml |-> held, err |-> "parse error"]
    ELSE [saml |-> EachInput(held, http.doc), err |-> "nil"]

\* HeldIsFresh taking an assertion that expires now for valid
HeldIsFreshAtExpiry(held, t) == Held(held) /\ ~ExpiresAtFails(held) /\ ExpiresAt(held) >= t

\* lines 107-116 of samlRequest: the held assertion is returned as it is
HeldIsFresh(held, t) == Held(held) /\ ~ExpiresAtFails(held) /\ ExpiresAt(held) > t

\* samlRequest going on to the request when the expiry of the held assertion
\* cannot be derived
samlRequestDespiteExpiryError(held, t, http) ==
    IF HeldIsFresh(held, t)
    THEN [saml |-> held, err |-> "nil", requests |-> 0]
    ELSE IF http.kind = "transportErr"
    THEN [saml |-> held, err |-> "SAML request error", requests |-> 1]
    ELSE LET h == handleSamlResponse(held, http)
         IN  [saml |-> h.saml, err |-> h.err, requests |-> 1]

\* baseClient.samlRequest at time t, http being the round trip's outcome if one is made.
\* The request URL is the client's own, parsed by newBaseClient: building the
\* request does not fail.
samlRequest(held, t, http) ==
    IF Held(held) /\ ExpiresAtFails(held)
    THEN [saml |-> held, err |-> "expiry error", requests |-> 0]
    ELSE IF HeldIsFresh(held, t)
    THEN [saml |-> held, err |-> "nil", requests |-> 0]
    ELSE IF http.kind = "transportErr"
    THEN [saml |-> held, err |-> "SAML request error", requests |-> 1]
    ELSE LET h == handleSamlResponse(held, http)
         IN  [saml |-> h.saml, err |-> h.err, requests |-> 1]

\* the values of the inputs named SAMLResponse, in document order
RECURSIVE SamlResponses(_)
SamlResponses(doc) ==
    IF doc = << >> THEN << >>
    ELSE (IF Head(doc).name = "SAMLResponse" THEN <<Head(doc).value>> ELSE << >>)
           \o SamlResponses(Tail(doc))

NoCall ==
    [op |-> "none", at |-> 0, before |-> Nil, requests |-> 0, err |-> "nil",
     http |-> "none", responses |-> << >>]

\* the record of one samlRequest call
CallRecord(held, t, http, r) ==
    [op |-> "samlRequest", at |-> t, before |-> held, requests |-> r.requests,
     err |-> r.err,
     http |-> IF r.requests = 0 THEN "none" ELSE http.kind,
     responses |-> IF r.requests = 0 THEN << >> ELSE SamlResponses(http.doc)]

\* SamlClient.SamlAssertion(): the request, then the held assertion or the error
SamlAssertionCall(held, t, http) ==
    LET r == samlRequest(held, t, http)
    IN  [saml |-> r.saml, err |-> r.err, requests |-> r.requests,
         result |-> IF r.err = "nil" THEN r.saml ELSE Nil]

-----------------------------------------------------------------------------
(* credentials.SamlRoleProvider and client.samlRoleClient *)

\* the cached credentials are present and unexpired at time t
CacheFresh(c, t) == c.kind = "creds" /\ c.exp > t

\* RetrieveWithContext: the cached credentials when fresh, else AssumeRoleWithSAML
\* (sts is its outcome: 0 when it fails, else the expiry of the credentials issued)
Retrieve(c, t, sts) ==
    IF CacheFresh(c, t) THEN [creds |-> c, err |-> "nil", cache |-> c, assumed |-> FALSE]
    ELSE IF sts = 0 THEN [creds |-> NoCreds, err |-> "sts error", cache |-> c, assumed |-> TRUE]
    ELSE [creds |-> Creds(sts), err |-> "nil", cache |-> Creds(sts), assumed |-> TRUE]

\* the IdP responses of the SAML-role client's runs: at most one SAMLResponse input
RoleClientOutcomes(t) ==
    {h \in HttpOutcomes(t) : Len(h.doc) <= 1}

\* AssertionFailed dropping the error of SamlAssertion()
AssertionFailedIgnored(r) == FALSE

\* CredentialsWithContext, lines 63-65: if err != nil { return nil, err }
AssertionFailed(r) == r.err # "nil"

NoResult ==
    [state |-> "none", at |-> 0, cacheFreshAtEntry |-> FALSE, requests |-> 0,
     err |-> "nil", creds |-> NoCreds, assumed |-> FALSE]

SamlInit ==
    /\ now = 0
    /\ saml = Nil
    /\ lastCall = NoCall
    /\ provSaml = EmptyValue
    /\ cache \in {NoCreds} \cup {Creds(e) : e \in 1..(MaxTime + 1)}
    /\ pc = "idle"
    /\ callLog = << >>
    /\ callRes = NoResult

\* time passes between calls
Tick ==
    /\ pc = "idle"
    /\ now < MaxTime
    /\ now' = now + 1
    /\ UNCHANGED <<saml, lastCall, provSaml, cache, pc, callLog, callRes>>
    /\ UNCHANGED factoryVars
    /\ UNCHANGED <<credVars, oauthVars>>

\* one call of baseClient.samlRequest, as the authentication client's
\* SamlAssertion() makes it
SamlRequest ==
    /\ pc = "idle"
    /\ \E http \in HttpOutcomes(now) :
          LET r == samlRequest(saml, now, http)
          IN  /\ saml' = r.saml
              /\ lastCall' = CallRecord(saml, now, http, r)
    /\ UNCHANGED <<now, provSaml, cache, pc, callLog, callRes>>
    /\ UNCHANGED factoryVars
    /\ UNCHANGED <<credVars, oauthVars>>

\* CredentialsWithContext, lines 62-66: the assertion, handed to the role provider
CredentialsAssertion ==
    /\ pc = "idle"
    /\ \E http \in RoleClientOutcomes(now) :
          LET r == SamlAssertionCall(saml, now, http)
              entry == [NoResult EXCEPT !.at = now, !.requests = r.requests,
                                        !.cacheFreshAtEntry = CacheFresh(cache, now)]
          IN  /\ saml' = r.saml
              /\ lastCall' = CallRecord(saml, now, http, r)
              /\ callLog' = <<"SamlAssertion">>
              /\ IF AssertionFailed(r)
                 THEN /\ callRes' = [entry EXCEPT !.state = "returned", !.err = r.err]
                      /\ pc' = "idle"
                      /\ UNCHANGED provSaml
                 ELSE /\ callRes' = [entry EXCEPT !.state = "running"]
                      /\ pc' = "retrieve"
                      /\ provSaml' = r.result
    /\ UNCHANGED <<now, cache>>
    /\ UNCHANGED factoryVars
    /\ UNCHANGED <<credVars, oauthVars>>

\* CredentialsWithContext, lines 68-81: the role provider's credentials
CredentialsRetrieve ==
    /\ pc = "retrieve"
    /\ \E sts \in {0} \cup ((now + 1)..(MaxTime + 1)) :
          LET r == Retrieve(cache, now, sts)
          IN  /\ cache' = r.cache
              /\ callRes' = [callRes EXCEPT !.state = "returned", !.err = r.err,
                                            !.creds = r.creds, !.assumed = r.assumed]
    /\ callLog' = Append(callLog, "RetrieveWithContext")
    /\ pc' = "idle"
    /\ UNCHANGED <<now, saml, lastCall, provSaml>>
    /\ UNCHANGED factoryVars
    /\ UNCHANGED <<credVars, oauthVars>>

\* samlRoleClient.ClearCache
ClearCache ==
    /\ pc = "idle"
    /\ cache.kind = "creds"
    /\ cache' = NoCreds
    /\ UNCHANGED <<now, saml, lastCall, provSaml, pc, callLog, callRes>>
    /\ UNCHANGED factoryVars
    /\ UNCHANGED <<credVars, oauthVars>>

-----------------------------------------------------------------------------
(* baseClient: credential gathering and identity *)

\* the most calls of gatherCredentials in one behaviour
MaxGathers == 3

MfaTypeCode == "code"

MfaTypes == {"auto", MfaTypeCode, "none"}

Usernames == {Empty, <<"alice">>}

Passwords == {Empty, <<"secret">>}

MfaCodes == {Empty, <<"123456">>}

\* the AuthenticationClientConfig fields gatherCredentials works on, as the
\* configuration set them; MfaTokenProvider is TRUE for a provider that is not nil
AuthConfigs ==
    [ Username         : Usernames,
      Password         : Passwords,
      MfaTokenCode     : MfaCodes,
      MfaType          : MfaTypes,
      MfaTokenProvider : BOOLEAN ]

\* what c.CredentialInputProvider(u, p) returns when it is called
CredentialInputs ==
    [err : {"nil", "credential input error"}, u : Usernames, p : Passwords]

\* what c.MfaTokenProvider() returns when it is called
MfaInputs == [err : {"nil", "mfa input error"}, m : MfaCodes]

\* gatherCredentials asking for user name and password on every call
NeedsCredentialsAlways(a) == TRUE

\* gatherCredentials: len(u) < 1 || len(p) < 1
NeedsCredentials(a) == Len(a.Username) < 1 \/ Len(a.Password) < 1

\* StoreCredentials storing what the provider returned whether it failed or not
StoreCredentialsDespiteError(a, cred) ==
    [a EXCEPT !.Username = cred.u, !.Password = cred.p]

\* gatherCredentials: the provider's values are stored unless it returned an error
StoreCredentials(a, cred) ==
    IF cred.err # "nil" THEN a
    ELSE [a EXCEPT !.Username = cred.u, !.Password = cred.p]

\* gatherCredentials: c.MfaType == MfaTypeCode && len(m) < 1 && c.MfaTokenProvider != nil
NeedsMfaCode(a) ==
    /\ a.MfaType = MfaTypeCode
    /\ Len(a.MfaTokenCode) < 1
    /\ a.MfaTokenProvider

\* baseClient.gatherCredentials on the fields a; cred and mfa are what the two
\* providers return if they are called
gatherCredentials(a, cred, mfa) ==
    LET askCred    == NeedsCredentials(a)
        a1         == IF askCred THEN StoreCredentials(a, cred) ELSE a
        credFailed == askCred /\ cred.err # "nil"
        askMfa     == ~credFailed /\ NeedsMfaCode(a1)
        mfaFailed  == askMfa /\ mfa.err # "nil"
        a2         == IF askMfa /\ ~mfaFailed THEN [a1 EXCEPT !.MfaTokenCode = mfa.m] ELSE a1
    IN  [ auth      |-> a2,
          err       |-> IF credFailed THEN cred.err ELSE IF mfaFailed THEN mfa.err ELSE "nil",
          credAsked |-> askCred,
          credErr   |-> IF credFailed THEN cred.err ELSE "nil",
          mfaAsked  |-> askMfa,
          mfaErr    |-> IF mfaFailed THEN mfa.err ELSE "nil" ]

\* no gatherCredentials call made
NotGathered(a) ==
    [ auth |-> a, err |-> "nil", credAsked |-> FALSE, credErr |-> "nil",
      mfaAsked |-> FALSE, mfaErr |-> "nil" ]

NoGather(a) ==
    [ n |-> 0, before |-> a, after |-> a, err |-> "nil", credAsked |-> FALSE,
      credErr |-> "nil", mfaAsked |-> FALSE, mfaErr |-> "nil" ]

\* the n-th gatherCredentials call: the fields before and after it, the providers
\* it called, the errors they returned and the error it returned
GatherRecord(n, a, g) ==
    [ n |-> n, before |-> a, after |-> g.auth, err |-> g.err, credAsked |-> g.credAsked,
      credErr |-> g.credErr, mfaAsked |-> g.mfaAsked, mfaErr |-> g.mfaErr ]

\* what c.saml.RoleSessionName() returns for the held assertion
RoleSessionNames(held) ==
    {[err |-> "role session name error", user |-> Empty]}
      \cup (IF held.kind = "xml" THEN {[err |-> "nil", user |-> <<"role-user">>]} ELSE {})

NoIdentity ==
    [IdentityType |-> "none", Provider |-> "", Username |-> Empty]

\* baseClient.identity
identity(provider, a, held, cred, mfa, rsn) ==
    LET triggered == Len(a.Username) < 1
        g  == IF triggered THEN gatherCredentials(a, cred, mfa) ELSE NotGathered(a)
        id == [IdentityType |-> "user", Provider |-> provider, Username |-> g.auth.Username]
    IN  [ gathered |-> triggered,
          gather   |-> g,
          id       |-> IF Held(held) /\ rsn.err = "nil"
                       THEN [id EXCEPT !.Username = rsn.user] ELSE id,
          err      |-> "nil" ]

NoIdentityCall ==
    [op |-> "none", gathered |-> FALSE, gatherErr |-> "nil", id |-> NoIdentity, err |-> "nil"]

CredentialInit ==
    /\ auth \in AuthConfigs
    /\ lastGather = NoGather(auth)
    /\ lastIdentity = NoIdentityCall

\* one call of baseClient.gatherCredentials
GatherCredentials ==
    /\ lastGather.n < MaxGathers
    /\ \E cred \in CredentialInputs, mfa \in MfaInputs :
          LET g == gatherCredentials(auth, cred, mfa)
          IN  /\ auth' = g.auth
              /\ lastGather' = GatherRecord(lastGather.n + 1, auth, g)
    /\ UNCHANGED lastIdentity
    /\ UNCHANGED <<factoryVars, samlVars, oauthVars>>

\* one call of baseClient.identity
Identity ==
    /\ lastGather.n < MaxGathers
    /\ \E cred \in CredentialInputs, mfa \in MfaInputs, rsn \in RoleSessionNames(saml) :
          LET r == identity("idp", auth, saml, cred, mfa, rsn)
          IN  /\ auth' = r.gather.auth
              /\ lastGather' = IF r.gathered
                               THEN GatherRecord(lastGather.n + 1, auth, r.gather)
                               ELSE lastGather
              /\ lastIdentity' = [ op |-> "identity", gathered |-> r.gathered,
                                   gatherErr |-> r.gather.err, id |-> r.id, err |-> r.err ]
    /\ UNCHANGED <<factoryVars, samlVars, oauthVars>>

-----------------------------------------------------------------------------
(* baseClient: the OAuth2 authorize request *)

\* http.StatusFound
StatusFound == 302

\* strings.HasPrefix
HasPrefix(s, prefix) ==
    Len(prefix) <= Len(s) /\ SubSeq(s, 1, Len(prefix)) = prefix

\* url.URL.Query(): the query string, what follows the first "?"
Query(u) ==
    LET P == {i \in 1..Len(u) : u[i] = "?"}
    IN  IF P = {} THEN Empty
        ELSE SubSeq(u, (CHOOSE i \in P : \A j \in P : i <= j) + 1, Len(u))

AuthorizeEndpoint == <<"https://idp.example/authorize">>

\* an endpoint url.Parse rejects
BadEndpoint == <<":">>

Endpoints == {AuthorizeEndpoint, BadEndpoint}

\* url.Parse(ep) returns no error
UrlParses(ep) == ep # BadEndpoint

\* data.Encode() of the authorize request
AuthzQuery == <<"client_id=app&state=req">>

\* u.RawQuery = data.Encode(): the URL of the authorize request
RequestUrl(ep, data) == ep \o <<"?">> \o data

Callback == <<"https://app.example/callback">>

\* c.RedirectUri: not configured, or the application's callback
RedirectUris == {Empty, Callback}

\* the query strings an IdP redirects to the callback with
CodeQueries == {<<"code=c1&state=s1">>, <<"code=c2&state=s2">>, <<"error=access_denied">>}

CallbackUrls == {Callback \o <<"?">> \o q : q \in CodeQueries}

\* a page of the IdP on the way of the redirects
LoginUrl == <<"https://idp.example/login">>

\* a URL that begins with the callback and is another resource
LookalikeUrl == Callback \o <<".evil.example/", "?", "code=c3&state=s3">>

\* no Location header
NoLocation == Empty

\* the client's RedirectUri, and whether c.httpClient.CheckRedirect is nil or set
OauthConfigs == [RedirectUri : RedirectUris, CheckRedirect : {"nil", "set"}]

\* oauthAuthorize, lines 211-224: the HTTP client the request is sent with
authorizeClient(checkRedirect, followRedirect) ==
    IF followRedirect
    THEN [redirects |-> "follow", jar |-> "c.httpClient.Jar"]
    ELSE IF checkRedirect = "nil"
         THEN [redirects |-> "ErrUseLastResponse", jar |-> "c.httpClient.Jar"]
         ELSE [redirects |-> "c.httpClient.CheckRedirect", jar |-> "c.httpClient.Jar"]

NoHttp == [kind |-> "none", url |-> Empty, status |-> 0, location |-> NoLocation]

\* what httpClient.Do(req) returns for the request to reqUrl: a *url.Error naming
\* the URL of the failed request, or a response. A client that stops at the first
\* response requests reqUrl only; a client that follows redirects may fail at any
\* hop and never returns a redirect that names a location.
AuthorizeOutcomes(cl, reqUrl) ==
    LET hops == IF cl.redirects = "ErrUseLastResponse" THEN {reqUrl}
                ELSE {reqUrl, LoginUrl, LookalikeUrl} \cup CallbackUrls
        locs == IF cl.redirects = "follow" THEN {}
                ELSE {LoginUrl, LookalikeUrl} \cup CallbackUrls
    IN  {[NoHttp EXCEPT !.kind = "urlError", !.url = u] : u \in hops}
          \cup {[NoHttp EXCEPT !.kind = "response", !.status = st] : st \in {200, StatusFound, 400, 500}}
          \cup {[NoHttp EXCEPT !.kind = "response", !.status = StatusFound, !.location = l] :
                   l \in locs}

\* the condition of line 245 never true
IsRedirectTargetNever(errUrl, redirectUri) == FALSE

\* oauthAuthorize, line 245: strings.HasPrefix(e.URL, c.RedirectUri)
IsRedirectTarget(errUrl, redirectUri) == HasPrefix(errUrl, redirectUri)

\* baseClient.oauthAuthorize: the values and the error it returns
oauthAuthorize(o, ep, followRedirect, http) ==
    IF ~UrlParses(ep) THEN [values |-> Empty, err |-> "parse error"]
    ELSE IF http.kind = "urlError"
         THEN IF IsRedirectTarget(http.url, o.RedirectUri)
              THEN [values |-> Query(http.url), err |-> "nil"]
              ELSE [values |-> Empty, err |-> "url error"]
    ELSE IF http.status # StatusFound THEN [values |-> Empty, err |-> "http status"]
    ELSE IF http.location = NoLocation THEN [values |-> Empty, err |-> "no location"]
    ELSE [values |-> Query(http.location), err |-> "nil"]

NoAuthorize ==
    [ op |-> "none", followRedirect |-> FALSE, ep |-> Empty,
      client |-> [redirects |-> "none", jar |-> "none"],
      http |-> NoHttp, values |-> Empty, err |-> "nil" ]

\* io.LimitReader(res.Body, 64*1024): the most bytes oauthToken reads of a body
TokenBodyLimit == 65536

\* the size of an ordinary token response
TokenSize == 300

\* a response body: len bytes that start with one JSON value of valueEnd bytes
\* (valueEnd = 0: with no JSON value), the rest being white space ("ws") or other
\* bytes ("junk")
Bodies ==
    { b \in [ len      : {0, TokenSize, TokenBodyLimit, TokenBodyLimit + 1},
              valueEnd : {0, TokenSize, TokenBodyLimit, TokenBodyLimit + 1},
              rest     : {"none", "ws", "junk"} ] :
        /\ b.valueEnd <= b.len
        /\ b.rest = "none" <=> b.valueEnd = b.len }

\* io.ReadAll(io.LimitReader(body, n)): the first n bytes of the body; a JSON value
\* that is cut is no JSON value any more
LimitRead(b, n) ==
    LET l   == IF b.len <= n THEN b.len ELSE n
        cut == b.valueEnd > l
        end == IF cut THEN 0 ELSE b.valueEnd
    IN  [ len      |-> l,
          valueEnd |-> end,
          rest     |-> IF end = l THEN "none" ELSE IF cut THEN "junk" ELSE b.rest ]

\* json.Unmarshal(body, token) returns no error: one JSON value, then at most
\* white space
Unmarshals(b) == b.valueEnd > 0 /\ b.rest \in {"none", "ws"}

NoBody == [len |-> 0, valueEnd |-> 0, rest |-> "none"]

NoTokenHttp == [kind |-> "none", status |-> 0, body |-> NoBody]

\* what c.httpClient.Do returns for the token request: an error of the transport,
\* or a response with its status and body
TokenOutcomes ==
    {[NoTokenHttp EXCEPT !.kind = "transportErr"]}
      \cup {[NoTokenHttp EXCEPT !.kind = "response", !.status = st] : st \in {302, 400, 500}}
      \cup {[kind |-> "response", status |-> st, body |-> b] : st \in {200, 201}, b \in Bodies}

\* checkResponseError: the transport's error, or a status that is not 2xx
checkResponseError(http) ==
    http.kind = "transportErr" \/ http.status < 200 \/ http.status >= 300

\* baseClient.oauthToken: the one POST, the body read up to the limit, the
\* token decoded from what was read
oauthToken(http) ==
    IF checkResponseError(http)
    THEN [token |-> "nil", err |-> "oAuth token request error", requests |-> 1]
    ELSE IF ~Unmarshals(LimitRead(http.body, TokenBodyLimit))
    THEN [token |-> "nil", err |-> "json error", requests |-> 1]
    ELSE [token |-> "token", err |-> "nil", requests |-> 1]

NoTokenCall ==
    [op |-> "none", requests |-> 0, http |-> NoTokenHttp, token |-> "nil", err |-> "nil"]

OauthInit ==
    /\ oauthCfg \in OauthConfigs
    /\ lastAuthorize = NoAuthorize
    /\ lastToken = NoTokenCall

\* one call of baseClient.oauthAuthorize
OauthAuthorize ==
    /\ \E followRedirect \in BOOLEAN, ep \in Endpoints :
          LET cl == authorizeClient(oauthCfg.CheckRedirect, followRedirect)
          IN  \E http \in IF UrlParses(ep)
                          THEN AuthorizeOutcomes(cl, RequestUrl(ep, AuthzQuery))
                          ELSE {NoHttp} :
                 LET r == oauthAuthorize(oauthCfg, ep, followRedirect, http)
                 IN  lastAuthorize' =
                         [ op |-> "oauthAuthorize", followRedirect |-> followRedirect,
                           ep |-> ep, client |-> cl, http |-> http,
                           values |-> r.values, err |-> r.err ]
    /\ UNCHANGED <<oauthCfg, lastToken>>
    /\ UNCHANGED <<factoryVars, samlVars, credVars>>

\* one call of baseClient.oauthToken
OauthToken ==
    /\ \E http \in TokenOutcomes :
          LET r == oauthToken(http)
          IN  lastToken' = [ op |-> "oauthToken", requests |-> r.requests, http |-> http,
                             token |-> r.token, err |-> r.err ]
    /\ UNCHANGED <<oauthCfg, lastAuthorize>>
    /\ UNCHANGED <<factoryVars, samlVars, credVars>>

-----------------------------------------------------------------------------
(* Specifications *)

FactoryIdle == cfgIn = NilConfig /\ ~options.EnableCache

\* no client of the run gathers credentials or makes an authorize request: the
\* fields as newBaseClient leaves them
AuthIdle ==
    /\ CredentialInit
    /\ auth = [ Username |-> Empty, Password |-> Empty, MfaTokenCode |-> Empty,
                MfaType |-> "auto", MfaTokenProvider |-> TRUE ]
    /\ OauthInit
    /\ oauthCfg = [RedirectUri |-> Empty, CheckRedirect |-> "nil"]

\* the authentication client: SAML requests as time passes
Init == SamlInit /\ cache = NoCreds /\ FactoryInit /\ FactoryIdle /\ AuthIdle

Next == Tick \/ SamlRequest

Spec == Init /\ [][Next]_vars

\* the SAML-role client: CredentialsWithContext over the authentication client
InitRoleClient == SamlInit /\ FactoryInit /\ FactoryIdle /\ AuthIdle

NextRoleClient ==
    \/ Tick
    \/ CredentialsAssertion
    \/ CredentialsRetrieve
    \/ ClearCache

RoleClientSpec == InitRoleClient /\ [][NextRoleClient]_vars

\* the Factory
InitFactory == FactoryInit /\ SamlInit /\ cache = NoCreds /\ AuthIdle

NextFactory == Get

FactorySpec == InitFactory /\ [][NextFactory]_vars

\* an authentication client: credential gathering and identity lookups, with no
\* assertion held or with one held
InitCredentials ==
    /\ FactoryInit /\ FactoryIdle
    /\ now = 0
    /\ saml \in {Nil, EmptyValue, Garbage, Xml(1)}
    /\ lastCall = NoCall
    /\ provSaml = EmptyValue
    /\ cache = NoCreds
    /\ pc = "idle"
    /\ callLog = << >>
    /\ callRes = NoResult
    /\ CredentialInit
    /\ OauthInit
    /\ oauthCfg = [RedirectUri |-> Empty, CheckRedirect |-> "nil"]

NextCredentials == GatherCredentials \/ Identity

CredentialSpec == InitCredentials /\ [][NextCredentials]_vars

\* an OAuth2 (OIDC) authentication client: authorize requests
InitOauth ==
    /\ FactoryInit /\ FactoryIdle
    /\ SamlInit /\ cache = NoCreds
    /\ CredentialInit
    /\ auth = [ Username |-> Empty, Password |-> Empty, MfaTokenCode |-> Empty,
                MfaType |-> "auto", MfaTokenProvider |-> TRUE ]
    /\ OauthInit

NextOauth == OauthAuthorize \/ OauthToken

OauthSpec == InitOauth /\ [][NextOauth]_vars

-----------------------------------------------------------------------------
(* Properties of Factory.Get, under FactorySpec *)

IsSet(x) == Len(x) > 0

Returned == fpc = "done" /\ getErr = "nil"

\* lines 54-57 seen from outside: a profile name that is one of the role ARNs is
\* moved into the role ARN, any other configuration is left as it was
ProfileMoved ==
    IF cfgIn.ProfileName \in RoleArns
    THEN cfg = [cfgIn EXCEPT !.RoleArn = cfgIn.ProfileName, !.ProfileName = Empty]
    ELSE cfg = cfgIn

\* the variant of the first rule that matches, in the order SAML URL, Web-Identity
\* URL, role ARN, none
FirstMatch ==
    IF IsSet(cfgIn.SamlUrl) THEN "saml_role"
    ELSE IF IsSet(cfgIn.WebIdentityUrl) THEN "web_role"
    ELSE IF IsSet(cfg.RoleArn) THEN "assume_role"
    ELSE "session_token"

\* C1 as stated: whenever Get returns a client, the profile ARN has been moved and
\* the client returned is of the variant of the first matching rule.
C1_Original ==
    Returned => ProfileMoved /\ client.kind = FirstMatch

\* C1, amended: whenever Get returns a client, the profile ARN has been moved and the
\* first matching rule decides the variant: the client returned is of that variant,
\* except that with a jump role the SAML-role or Web-role client of the first
\* matching rule is the first stage of the Assume-Role client that is returned.
C1_FirstMatch ==
    Returned =>
        /\ ProfileMoved
        /\ IF FirstMatch \in {"saml_role", "web_role"} /\ IsSet(cfgIn.JumpRoleArn)
           THEN client.kind = "assume_role" /\ client.base.kind = FirstMatch
           ELSE client.kind = FirstMatch /\ client.base.kind \in {"none", "session_token"}

\* several rules match (both URLs and a role ARN, the profile name an ARN) and the
\* first one has won
C1_Witness ==
    /\ Returned
    /\ cfgIn.ProfileName \in RoleArns
    /\ cfg.ProfileName = Empty
    /\ IsSet(cfgIn.SamlUrl) /\ IsSet(cfgIn.WebIdentityUrl) /\ IsSet(cfgIn.RoleArn)
    /\ ~IsSet(cfgIn.JumpRoleArn)
    /\ client.kind = "saml_role"

\* C2: with a jump role and a SAML URL (or, no SAML URL being set, a Web-Identity
\* URL) the client Get returns is an Assume-Role client for the final role ARN; its
\* identity is the authentication client of a SAML-role (Web-role) client for the
\* jump role, its AWS credentials are that client's role provider, and its duration
\* is the chained default whatever duration was requested.
C2_RoleChain ==
    Returned /\ IsSet(cfgIn.JumpRoleArn) /\ (IsSet(cfgIn.SamlUrl) \/ IsSet(cfgIn.WebIdentityUrl)) =>
        /\ client.kind = "assume_role"
        /\ client.roleArn = cfg.RoleArn
        /\ client.duration = AssumeRoleDurationDefault
        /\ client.creds = "base.roleProvider"
        /\ client.base.roleArn = cfgIn.JumpRoleArn
        /\ client.base.duration = cfgIn.Duration
        /\ IF IsSet(cfgIn.SamlUrl)
           THEN client.base.kind = "saml_role" /\ client.ident = "base.samlClient"
           ELSE client.base.kind = "web_role" /\ client.ident = "base.webClient"

\* a SAML role chain was built for a requested duration above the chained default
C2_Witness ==
    /\ Returned
    /\ IsSet(cfgIn.JumpRoleArn) /\ IsSet(cfgIn.SamlUrl)
    /\ cfgIn.Duration > AssumeRoleDurationDefault
    /\ client.kind = "assume_role"
    /\ client.base.kind = "saml_role"
    /\ client.duration = AssumeRoleDurationDefault

\* C3: with a role ARN and neither URL, the Assume-Role client of a duration at or
\* below the default has no MFA serial number and takes credentials and identity
\* from a Session-Token client built for it; above the default it keeps the
\* configured MFA serial number and has no Session-Token client.
C3_SessionBacked ==
    Returned /\ ~IsSet(cfgIn.SamlUrl) /\ ~IsSet(cfgIn.WebIdentityUrl) /\ IsSet(cfg.RoleArn) =>
        /\ client.kind = "assume_role"
        /\ client.roleArn = cfg.RoleArn
        /\ IF cfgIn.Duration <= AssumeRoleDurationDefault
           THEN /\ client.serialNumber = Empty
                /\ client.base.kind = "session_token"
                /\ client.base.serialNumber = cfgIn.MfaSerial
                /\ client.creds = "base.creds"
                /\ client.ident = "base.ident"
           ELSE /\ client.serialNumber = cfgIn.MfaSerial
                /\ client.base = NoClient
                /\ client.creds = "session"
                /\ client.ident = "own"

\* a role client of exactly the default duration, with an MFA serial configured,
\* was built on a Session-Token client
C3_Witness ==
    /\ Returned
    /\ ~IsSet(cfgIn.SamlUrl) /\ ~IsSet(cfgIn.WebIdentityUrl) /\ IsSet(cfg.RoleArn)
    /\ cfgIn.Duration = AssumeRoleDurationDefault
    /\ IsSet(cfgIn.MfaSerial)
    /\ client.kind = "assume_role"
    /\ client.serialNumber = Empty
    /\ client.base.kind = "session_token"

\* the parts the ARN was built from
PartsOf(role) == CHOOSE r \in ArnParts \cup {JumpParts} : ArnOf(r) = role

\* the file name C10 gives: the prefix, an underscore, and the profile name or
\* "<account id>-<last segment of the resource>"
FileOf(prefix, profile, role) ==
    <<CachePath, "/", prefix, "_">>
      \o (IF IsSet(profile) THEN profile
          ELSE <<PartsOf(role).account, "-", PartsOf(role).name>>)

PrefixOf(kind) ==
    CASE kind = "session_token" -> ".aws_session_token"
      [] kind = "assume_role"   -> ".aws_assume_role"
      [] kind = "saml_role"     -> ".aws_saml_role"
      [] kind = "web_role"      -> ".aws_web_role"

\* C10: with the cache enabled, the cache file of the client Get returns is named by
\* its variant's prefix, "_" and the key: the profile name when there is one, and
\* with no profile name and an ARN for the role, the ARN's account id, "-" and the
\* last "/"-separated segment of its resource. The first stage of a role chain is
\* keyed by the jump role's ARN in the same way.
C10_CacheKey ==
    Returned /\ options.EnableCache =>
        /\ IsSet(cfg.ProfileName) =>
              client.cache = FileOf(PrefixOf(client.kind), cfg.ProfileName, cfg.RoleArn)
        /\ ~IsSet(cfg.ProfileName) /\ IsSet(cfg.RoleArn) /\ client.kind # "session_token" =>
              client.cache = FileOf(PrefixOf(client.kind), Empty, cfg.RoleArn)
        /\ client.base.kind \in {"saml_role", "web_role"} =>
              client.base.cache = FileOf(PrefixOf(client.base.kind), Empty, cfgIn.JumpRoleArn)

\* a role client without a profile name was given the file keyed by the account id
\* and the last segment of a resource with a path
C10_Witness ==
    /\ Returned /\ options.EnableCache
    /\ cfg.ProfileName = Empty
    /\ \E r \in ArnParts : Len(r.path) > 2 /\ cfg.RoleArn = ArnOf(r)
    /\ client.kind = "assume_role"
    /\ client.cache = <<CachePath, "/", ".aws_assume_role", "_", "111", "-", "Admin">>

\* the cache files the four variants are given for one configuration and one set
\* of options, in the order Session-Token, Assume-Role, SAML-role, Web-role
VariantFiles(c, o) ==
    LET single == [c EXCEPT !.JumpRoleArn = Empty]
    IN  << sessionClient(c, o, c.ProfileName).cache,
           roleClient(c, o, c.ProfileName).cache,
           samlClient(single, o, c.ProfileName, "ok").client.cache,
           webClient(single, o, c.ProfileName, "ok").client.cache >>

\* C11: with the cache enabled, the cache files that the Session-Token, Assume-Role,
\* SAML-role and Web-role clients are given for the profile name and role ARN of the
\* configuration are pairwise different, the client Get returns has one of them, and
\* a client built on a first stage or on a Session-Token client never has the cache
\* file of that stage.
C11_CacheIsolation ==
    Returned /\ options.EnableCache =>
        /\ \A i, j \in 1..4 :
              i # j => VariantFiles(cfg, options)[i] # VariantFiles(cfg, options)[j]
        /\ \E i \in 1..4 : client.cache = VariantFiles(cfg, options)[i]
        /\ client.cache # NoCache
        /\ client.base.kind # "none" =>
              /\ client.base.cache # NoCache
              /\ client.base.cache # client.cache

\* an Assume-Role client and the Session-Token client it is built on were given
\* files of the same key, told apart by the prefix alone
C11_Witness ==
    /\ Returned /\ options.EnableCache
    /\ client.kind = "assume_role"
    /\ client.base.kind = "session_token"
    /\ SubSeq(client.cache, 4, Len(client.cache))
          = SubSeq(client.base.cache, 4, Len(client.base.cache))
    /\ client.cache # client.base.cache

\* the cache files of the client Get builds for configuration c: its own and that
\* of the first stage or Session-Token client it is built on
FilesFor(c) ==
    LET cl == GetResult(c, options, TRUE, "ok").client
    IN  [own |-> cl.cache, base |-> IF cl.base.kind = "none" THEN NoCache ELSE cl.base.cache]

FilesGiven ==
    [own |-> client.cache, base |-> IF client.base.kind = "none" THEN NoCache ELSE client.base.cache]

\* the configuration handed to Get with another profile name p, its role ARN being
\* the role ARN the call resolved
OtherPath(p) == [cfgIn EXCEPT !.ProfileName = p, !.RoleArn = cfg.RoleArn]

\* the profile name that is left of p once a role ARN has been moved out of it
NameLeft(p) == IF p \in RoleArns THEN Empty ELSE p

\* C12 as stated: with the cache enabled, every configuration that differs from the
\* one handed to Get only in the path to the same role ARN (the ARN as the profile
\* name, a named profile with that role ARN, no profile name and that role ARN) is
\* given the same cache files by the same variant.
C12_Original ==
    Returned /\ options.EnableCache /\ IsSet(cfg.RoleArn) =>
        \A p \in ProfileNames :
            p \notin RoleArns \/ p = cfg.RoleArn => FilesFor(OtherPath(p)) = FilesGiven

\* C12, amended: with the cache enabled, every configuration that resolves to the
\* same profile name and the same role ARN as the one handed to Get is given the same
\* cache files by the same variant; in particular the configuration whose profile
\* name is the role ARN and the one with no profile name and that role ARN share
\* their files. (A named profile is keyed by its name, not by the role ARN.)
C12_SameResolved ==
    Returned /\ options.EnableCache /\ IsSet(cfg.RoleArn) =>
        \A p \in ProfileNames :
            /\ p \notin RoleArns \/ p = cfg.RoleArn
            /\ NameLeft(p) = NameLeft(cfgIn.ProfileName)
            => FilesFor(OtherPath(p)) = FilesGiven

\* Get was handed the role ARN as the profile name, and the configuration with no
\* profile name and that role ARN is given the file Get gave, keyed by the ARN
C12_Witness ==
    /\ Returned /\ options.EnableCache
    /\ cfgIn.ProfileName \in RoleArns
    /\ cfgIn.RoleArn # cfgIn.ProfileName
    /\ cfg.RoleArn = cfgIn.ProfileName
    /\ FilesFor(OtherPath(Empty)) = FilesGiven
    /\ client.cache = FileOf(PrefixOf(client.kind), Empty, cfg.RoleArn)

\* the authentication clients of the client Get returned: the SAML-role or Web-role
\* client itself, or the first stage of the role chain
FederatedClients ==
    {cl \in {client, client.base} : cl.kind \in {"saml_role", "web_role"}}

\* C17: every SAML-role or Web-role client in what Get returns, as the client
\* returned or as the first stage of a role chain, holds the process-wide cookie
\* jar, and the first request the Factory made with it to the IdP, if it made one,
\* was made with that jar.
C17_SharedCookieJar ==
    Returned =>
        \A cl \in FederatedClients :
            /\ cl.jar = cookieJar
            /\ cl.fetch # "none" => cl.fetchJar = cookieJar

\* a role chain was returned whose first stage, a Web-role client, fetched its
\* initial token with the process-wide cookie jar
C17_Witness ==
    /\ Returned
    /\ client.kind = "assume_role"
    /\ client.base.kind = "web_role"
    /\ client.base.fetch = "ok"
    /\ client.base.fetchJar = cookieJar
    /\ client.base.jar = cookieJar

\* C23 as stated: Get returns no client whose initial assertion or token fetch
\* failed, be it the client returned or the first stage of a role chain: a failed
\* fetch makes Get return the error and no client.
C23_FetchFailureSurfaced ==
    Returned => \A cl \in FederatedClients : cl.fetch # "failed"

\* C18 as stated: with the cache enabled, the cache file of the client Get returns
\* for a configuration with no profile name and a role ARN is not the cache file the
\* same variant is given for no profile name and any other role ARN.
C18_DistinctRoles ==
    Returned /\ options.EnableCache /\ cfgIn.ProfileName = Empty /\ IsSet(cfgIn.RoleArn) =>
        \A r \in RoleArns \ {cfgIn.RoleArn} :
            FilesFor([cfgIn EXCEPT !.RoleArn = r]).own # client.cache

-----------------------------------------------------------------------------
(* Properties of CredentialsWithContext, under RoleClientSpec *)

\* C4: in every run of CredentialsWithContext the SamlAssertion step comes first and
\* the role provider is asked at most once, after it; when the SamlAssertion step
\* fails the call returns that error and the role provider is not asked.
C4_AssertionFirst ==
    /\ callLog \in {<< >>, <<"SamlAssertion">>, <<"SamlAssertion", "RetrieveWithContext">>}
    /\ pc = "retrieve" => callLog = <<"SamlAssertion">> /\ lastCall.err = "nil"
    /\ lastCall.op = "samlRequest" /\ lastCall.err # "nil" =>
          /\ pc = "idle"
          /\ callLog = <<"SamlAssertion">>
          /\ callRes.state = "returned"
          /\ callRes.err = lastCall.err
          /\ callRes.creds = NoCreds
          /\ ~callRes.assumed

\* the request to the IdP failed and the call returned that error
C4_Witness ==
    /\ callRes.state = "returned"
    /\ callRes.err = "SAML request error"
    /\ callRes.requests = 1
    /\ callLog = <<"SamlAssertion">>

\* C9 as stated: a call that found unexpired credentials in the cache has returned
\* them, with no error and without a request to the IdP.
C9_CacheBeforeIdP ==
    callRes.state = "returned" /\ callRes.cacheFreshAtEntry =>
        /\ callRes.requests = 0
        /\ callRes.err = "nil"
        /\ ~callRes.assumed

-----------------------------------------------------------------------------
(* Properties of the SAML request, under Spec *)

Called == lastCall.op = "samlRequest"

\* the assertion held before the last request was still valid when it was made
WasFresh ==
    /\ Held(lastCall.before)
    /\ lastCall.before.kind = "xml"
    /\ lastCall.before.exp > lastCall.at

\* C5 as stated: after a SAML request that returned without error, a held assertion
\* with a derived expiry has that expiry strictly after the time of the request.
C5_NoStaleAssertion ==
    Called /\ lastCall.err = "nil" /\ Held(saml) /\ saml.kind = "xml" =>
        saml.exp > lastCall.at

\* C6 as stated: the request is sent unless a non-empty assertion with an expiry
\* strictly after the current time is held, and only then; an unsent request leaves
\* the held assertion as it was.
C6_Original ==
    Called =>
        /\ lastCall.requests = 0 <=> WasFresh
        /\ lastCall.requests = 0 => saml = lastCall.before

\* C6, amended: the request returns without error and without a network call exactly
\* when a non-empty assertion with an expiry strictly after the current time is
\* held; no call that sends nothing changes the held assertion; an assertion whose
\* expiry is at or before the current time makes the call send one request.
C6_FreshMeansNoRequest ==
    Called =>
        /\ (lastCall.requests = 0 /\ lastCall.err = "nil") <=> WasFresh
        /\ lastCall.requests = 0 => saml = lastCall.before
        /\ lastCall.before.kind = "xml" /\ lastCall.before.exp <= lastCall.at =>
              lastCall.requests = 1

\* a second request, made while the assertion fetched earlier is still valid, sent
\* nothing and left the assertion as it was
C6_Witness ==
    /\ Called
    /\ WasFresh
    /\ lastCall.requests = 0
    /\ lastCall.err = "nil"
    /\ saml = lastCall.before

\* C7 as stated: after a response document with no SAMLResponse input the request
\* has returned no error and the client holds no assertion.
C7_EmptyWithoutInput ==
    Called /\ lastCall.http = "doc" /\ lastCall.responses = << >> =>
        lastCall.err = "nil" /\ ~Held(saml)

\* C8 as stated: after a response with SAMLResponse inputs the held assertion is the
\* value of the first of them.
C8_Original ==
    Called /\ lastCall.http = "doc" /\ lastCall.responses # << >> =>
        saml = lastCall.responses[1]

\* C8, amended: after a response with SAMLResponse inputs the held assertion is the
\* value of the last of them in document order, and no error is returned; with
\* exactly one such input it is that input's value.
C8_LastInput ==
    Called /\ lastCall.http = "doc" /\ lastCall.responses # << >> =>
        /\ lastCall.err = "nil"
        /\ saml = lastCall.responses[Len(lastCall.responses)]

\* a response with two SAMLResponse inputs of different values left the second held
C8_Witness ==
    /\ Called
    /\ lastCall.http = "doc"
    /\ Len(lastCall.responses) = 2
    /\ lastCall.responses[1] # lastCall.responses[2]
    /\ saml = lastCall.responses[2]

-----------------------------------------------------------------------------
(* Properties of credential gathering and identity, under CredentialSpec *)

Gathered == lastGather.n > 0

\* nothing is left to gather: user name and password are set, and the MFA code is
\* set or the MFA type is not "code"
Settled(a) ==
    /\ IsSet(a.Username)
    /\ IsSet(a.Password)
    /\ IsSet(a.MfaTokenCode) \/ a.MfaType # "code"

\* C13: a gatherCredentials call made when nothing is left to gather calls neither
\* provider, returns no error and leaves every field as it was; the credential-input
\* provider is called only when the user name or the password was empty, the MFA
\* provider only when the MFA type was "code" and no code was set.
C13_GatherIdempotent ==
    Gathered =>
        /\ Settled(lastGather.before) =>
              /\ ~lastGather.credAsked
              /\ ~lastGather.mfaAsked
              /\ lastGather.err = "nil"
              /\ lastGather.after = lastGather.before
        /\ lastGather.credAsked =>
              ~IsSet(lastGather.before.Username) \/ ~IsSet(lastGather.before.Password)
        /\ lastGather.mfaAsked =>
              lastGather.before.MfaType = "code" /\ ~IsSet(lastGather.before.MfaTokenCode)

\* a call after the first found everything gathered, MFA code included, and did
\* nothing
C13_Witness ==
    /\ lastGather.n >= 2
    /\ Settled(lastGather.before)
    /\ lastGather.before.MfaType = "code"
    /\ lastGather.before.MfaTokenProvider
    /\ ~lastGather.credAsked
    /\ ~lastGather.mfaAsked
    /\ lastGather.after = lastGather.before
    /\ auth = lastGather.before

\* C14: when the credential-input provider fails, gatherCredentials returns its
\* error, the MFA provider is not called, and user name, password and MFA code are
\* as they were; when the MFA provider fails, gatherCredentials returns its error
\* and the MFA code is as it was.
C14_ProviderFailure ==
    Gathered =>
        /\ lastGather.credErr # "nil" =>
              /\ lastGather.err = lastGather.credErr
              /\ ~lastGather.mfaAsked
              /\ lastGather.after.Username = lastGather.before.Username
              /\ lastGather.after.Password = lastGather.before.Password
              /\ lastGather.after.MfaTokenCode = lastGather.before.MfaTokenCode
              /\ auth = lastGather.before
        /\ lastGather.mfaErr # "nil" =>
              /\ lastGather.err = lastGather.mfaErr
              /\ lastGather.after.MfaTokenCode = lastGather.before.MfaTokenCode
              /\ auth.MfaTokenCode = lastGather.before.MfaTokenCode

\* the credential-input provider failed on a client that had a user name, no
\* password and an MFA code to ask for: the call returned the provider's error
\* without asking for the code
C14_Witness ==
    /\ Gathered
    /\ lastGather.credAsked
    /\ lastGather.credErr = "credential input error"
    /\ lastGather.err = "credential input error"
    /\ IsSet(lastGather.before.Username)
    /\ ~IsSet(lastGather.before.Password)
    /\ lastGather.before.MfaType = "code"
    /\ ~IsSet(lastGather.before.MfaTokenCode)
    /\ lastGather.before.MfaTokenProvider
    /\ ~lastGather.mfaAsked
    /\ auth = lastGather.before

\* C15 as stated: an identity lookup that gathered credentials because no user name
\* was set, and whose gathering failed, has returned an error and no identity.
C15_InputFailureSurfaced ==
    lastIdentity.op = "identity" /\ lastIdentity.gathered /\ lastIdentity.gatherErr # "nil" =>
        /\ lastIdentity.err # "nil"
        /\ lastIdentity.id = NoIdentity

-----------------------------------------------------------------------------
(* Properties of the OAuth2 authorize request, under OauthSpec *)

Authorized == lastAuthorize.op = "oauthAuthorize"

\* the request failed in the transport, with a URL error
TransportFailed == Authorized /\ lastAuthorize.http.kind = "urlError"

\* the failed URL begins with the redirect URI configured for the client
AtRedirectTarget ==
    /\ IsSet(oauthCfg.RedirectUri)
    /\ Len(lastAuthorize.http.url) >= Len(oauthCfg.RedirectUri)
    /\ \A i \in 1..Len(oauthCfg.RedirectUri) :
          lastAuthorize.http.url[i] = oauthCfg.RedirectUri[i]

\* what follows the "?" of a URL that has one "?"
QueryOf(u) == SubSeq(u, (CHOOSE i \in 1..Len(u) : u[i] = "?") + 1, Len(u))

\* C16: an oauthAuthorize call with followRedirect = TRUE whose transport failed
\* with a URL error at a URL that begins with the configured redirect URI has
\* returned no error and the query parameters of that URL.
C16_RedirectTargetResult ==
    TransportFailed /\ lastAuthorize.followRedirect /\ AtRedirectTarget =>
        /\ lastAuthorize.err = "nil"
        /\ lastAuthorize.values = QueryOf(lastAuthorize.http.url)

\* the redirects were followed to the unreachable callback and the call returned
\* the code and state of its URL
C16_Witness ==
    /\ TransportFailed
    /\ lastAuthorize.followRedirect
    /\ oauthCfg.RedirectUri = Callback
    /\ lastAuthorize.client.redirects = "follow"
    /\ lastAuthorize.http.url = Callback \o <<"?", "code=c1&state=s1">>
    /\ lastAuthorize.err = "nil"
    /\ lastAuthorize.values = <<"code=c1&state=s1">>

\* C19 as stated: an oauthAuthorize call whose transport failed at the URL of the
\* authorize request itself, or with followRedirect = FALSE, or on a client with no
\* redirect URI configured, has returned an error.
C19_OtherTransportErrors ==
    /\ TransportFailed
    /\ \/ lastAuthorize.http.url = RequestUrl(lastAuthorize.ep, AuthzQuery)
       \/ ~lastAuthorize.followRedirect
       \/ ~IsSet(oauthCfg.RedirectUri)
    => lastAuthorize.err # "nil"

\* C20 as stated: an oauthAuthorize call with followRedirect = FALSE that sent its
\* request has returned a result only for a response of status 302, the result being
\* the query of the Location header; for a response of any other status it has
\* returned an error; and the request was sent with a client that does not follow
\* redirects and has the base client's cookie jar.
C20_FoundOnly ==
    Authorized /\ ~lastAuthorize.followRedirect /\ lastAuthorize.http.kind # "none" =>
        /\ lastAuthorize.err = "nil" =>
              /\ lastAuthorize.http.kind = "response"
              /\ lastAuthorize.http.status = StatusFound
              /\ lastAuthorize.http.location # NoLocation
              /\ lastAuthorize.values = Query(lastAuthorize.http.location)
        /\ lastAuthorize.http.kind = "response" /\ lastAuthorize.http.status # StatusFound =>
              lastAuthorize.err # "nil"
        /\ lastAuthorize.client.redirects # "follow"
        /\ lastAuthorize.client.jar = "c.httpClient.Jar"

\* the whole body of the last token response is one JSON value, then at most
\* white space
WellFormed(b) == b.valueEnd > 0 /\ b.rest # "junk"

\* C21 as stated: an oauthToken call has sent one POST; it has returned a token only
\* for a response of status 2xx whose body is well-formed JSON of at most 64 KiB;
\* for any other status, a malformed body or a body above 64 KiB it has returned an
\* error and no token.
C21_TokenOnlyFromSmallJson ==
    lastToken.op = "oauthToken" =>
        LET ok == /\ lastToken.http.kind = "response"
                  /\ lastToken.http.status \in 200..299
                  /\ WellFormed(lastToken.http.body)
                  /\ lastToken.http.body.len <= 64 * 1024
        IN  /\ lastToken.requests = 1
            /\ lastToken.token # "nil" => ok /\ lastToken.err = "nil"
            /\ ~ok => lastToken.err # "nil" /\ lastToken.token = "nil"

-----------------------------------------------------------------------------
(* Further properties of the SAML request, under Spec *)

\* C22 as stated: a SAML request that failed in the round trip or in the parsing of
\* the response document has returned an error with the "SAML request error"
\* prefix, has made one request, and has left the held assertion as it was.
C22_Original ==
    Called /\ lastCall.http \in {"transportErr", "parseErr"} =>
        /\ lastCall.err = "SAML request error"
        /\ lastCall.requests = 1
        /\ saml = lastCall.before

\* C22, amended: a SAML request that failed in the round trip has returned an error
\* with the "SAML request error" prefix; one that failed in the parsing of the
\* response document has returned the parser's error, without that prefix; either
\* has made one request and has left the held assertion as it was.
C22_RequestFailure ==
    Called /\ lastCall.http \in {"transportErr", "parseErr"} =>
        /\ lastCall.http = "transportErr" => lastCall.err = "SAML request error"
        /\ lastCall.http = "parseErr" => lastCall.err = "parse error"
        /\ lastCall.requests = 1
        /\ saml = lastCall.before

\* a client holding an expired assertion made a request whose response did not
\* parse, and holds the same assertion still
C22_Witness ==
    /\ Called
    /\ lastCall.http = "parseErr"
    /\ lastCall.before.kind = "xml"
    /\ lastCall.before.exp <= lastCall.at
    /\ lastCall.requests = 1
    /\ lastCall.err = "parse error"
    /\ saml = lastCall.before

\* the client holds a non-empty assertion whose expiry cannot be derived
Undatable == Held(saml) /\ saml.kind # "xml"

\* C24: once the held assertion is non-empty and its expiry cannot be derived, no
\* step changes it, and every SAML request made from then on returns the error of
\* the derivation and sends nothing.
C24_StuckOnUndatable ==
    [][Undatable =>
          /\ saml' = saml
          /\ lastCall' # lastCall =>
                /\ lastCall'.before = saml
                /\ lastCall'.err = "expiry error"
                /\ lastCall'.requests = 0]_vars

\* a request made at a later time on a client holding such an assertion failed
\* with the error of the derivation, sent nothing and left the assertion held
C24_Witness ==
    /\ Called
    /\ lastCall.at >= 2
    /\ lastCall.before = Garbage
    /\ lastCall.err = "expiry error"
    /\ lastCall.requests = 0
    /\ saml = Garbage

====
